---- MODULE Spec2Model ----
(***************************************************************************)
(* Build-time pipeline of the site: the page-creation callback             *)
(* (gatsby-node.js createPages), the node-created callback                 *)
(* (gatsby-node.js onCreateNode) and the relative-pathify image transform  *)
(* (gatsby-ssr.js, second module).  Strings are TLA+ strings; template     *)
(* literals are \o concatenations; JavaScript values that may be missing   *)
(* are tagged records (Undefined / Str(s)).                                *)
(***************************************************************************)
EXTENDS Integers, Sequences, FiniteSets, TLC

VARIABLES
    pc,        \* createPages: position of the callback between its awaits
    mi,        \* createPages: index into mediaTypes of the category loop
    routes,    \* createPages: the createPage calls made so far, in order
    content,   \* createPages: the graph content each answered query ran against
    failed,    \* createPages: the queries that reported errors
    raised,    \* createPages: TRUE once the callback has thrown
    graphPage, \* onCreateNode: the PagesJson source node of this build
    nodes,     \* onCreateNode: nodes created through createNode, by id
    links,     \* onCreateNode: children lists made by createParentChildLink
    slugs,     \* onCreateNode: slug fields attached through createNodeField
    call,      \* onCreateNode: what the latest invocation did
    ast,       \* image transform: the markdown AST (mutated in place)
    opts,      \* image transform: the pluginOptions
    applied,   \* image transform: number of applications so far
    once,      \* image transform: the AST as it was after the first application
    given      \* image transform: the AST as it was handed to the first application

vars == <<pc, mi, routes, content, failed, raised, graphPage, nodes, links,
          slugs, call, ast, opts, applied, once, given>>

pagesVars == <<pc, mi, routes, content, failed, raised>>
nodeVars == <<graphPage, nodes, links, slugs, call>>
imgVars == <<ast, opts, applied, once, given>>

(***************************************************************************)
(* JavaScript values                                                       *)
(***************************************************************************)
Undefined == [t |-> "undefined"]

Str(s) == [t |-> "string", s |-> s]

\* JavaScript truthiness of a value that is undefined, a string or an object
Truthy(x) == IF x.t = "string" THEN x.s # "" ELSE x.t # "undefined"

\* obj.name, undefined when the object has no such property
Field(obj, name) == IF name \in DOMAIN obj THEN obj[name] ELSE Undefined

\* String.prototype.startsWith
StartsWith(s, p) == Len(s) >= Len(p) /\ SubSeq(s, 1, Len(p)) = p

\* sequences of length at most n over S
SeqUpTo(S, n) == UNION {[1..k -> S] : k \in 0..n}

(***************************************************************************)
(* createPages                                                             *)
(***************************************************************************)
MaxStatic == 2
MaxItems == 11
MaxNews == 16

mediaTypes == << <<"announcements", "Announcements">>, <<"blog", "Blog">> >>

pageSize == 10

newsPageSize == 15

\* mutant: the page count rounded down
MathFloorDiv(n, d) == n \div d

\* Math.ceil(n / d) for n >= 0, d > 0
MathCeilDiv(n, d) == IF n % d = 0 THEN n \div d ELSE (n \div d) + 1

\* PagesJson nodes as the graph holds them (navigation may be missing)
PageNodes ==
    {[navigation |-> Undefined]} \cup
    {[navigation |-> [t |-> "object", link |-> l]] :
        l \in {Undefined, Str(""), Str("/about"), Str("/media/blog/2")}}

PagesContents == SeqUpTo(PageNodes, MaxStatic)

\* markdown items of one category as the graph holds them, date descending:
\* file names post-1, post-2, ...; in the "numeric" variant the first file is
\* named 2; in the "ext" variant every sixth item links out
ItemSlug(i, variant) ==
    IF variant = "numeric" /\ i = 1 THEN "2" ELSE "post-" \o ToString(i)

ItemLink(i, variant) ==
    IF variant = "ext" /\ i % 6 = 1
    THEN Str("https://example.org/" \o ToString(i))
    ELSE Undefined

Items(n, variant) ==
    [i \in 1..n |-> [fields |-> [slug |-> ItemSlug(i, variant),
                                 externalLink |-> ItemLink(i, variant)]]]

\* item counts at the page boundaries: 0, 1, pageSize - 1, pageSize, pageSize + 1, ...
ItemCounts == {n \in 0..MaxItems : n % pageSize \in {0, 1, pageSize - 1}}

MediaContents ==
    {Items(n, v) : n \in ItemCounts, v \in {"plain", "ext", "numeric"}}

\* news item counts at and between the page boundaries
NewsCounts == {n \in 0..MaxNews : n % newsPageSize \in {0, 1, 2, 7, newsPageSize - 1}}

NewsContents == {Items(n, "plain") : n \in NewsCounts}

\* the allPagesJson query: projects navigation { link }
PagesQuery(store) ==
    [i \in 1..Len(store) |->
        IF store[i].navigation.t = "undefined"
        THEN [navigation |-> Undefined]
        ELSE [navigation |-> [t |-> "object", link |-> store[i].navigation.link]]]

\* the allMarkdownRemark query: projects fields { slug } only
MarkdownQuery(store) ==
    [i \in 1..Len(store) |-> [fields |-> [slug |-> store[i].fields.slug]]]

\* mutant: the loop stops at the first page without a navigation link
RECURSIVE StaticRoutesBreak(_, _)
StaticRoutesBreak(pages, i) ==
    IF i > Len(pages) THEN <<>>
    ELSE IF \/ ~Truthy(pages[i].navigation)
            \/ ~Truthy(pages[i].navigation.link)
         THEN <<>>
         ELSE <<[path |-> pages[i].navigation.link.s,
                 component |-> "static-page",
                 context |-> [link |-> pages[i].navigation.link.s]]>>
              \o StaticRoutesBreak(pages, i + 1)

\* the static-pages loop: createPage calls for the queried pages
RECURSIVE StaticRoutes(_, _)
StaticRoutes(pages, i) ==
    IF i > Len(pages) THEN <<>>
    ELSE IF \/ ~Truthy(pages[i].navigation)
            \/ ~Truthy(pages[i].navigation.link)
         THEN StaticRoutes(pages, i + 1)
         ELSE <<[path |-> pages[i].navigation.link.s,
                 component |-> "static-page",
                 context |-> [link |-> pages[i].navigation.link.s]]>>
              \o StaticRoutes(pages, i + 1)

\* path of listing page i (0-based) under base
ListPath(base, i) == IF i = 0 THEN base ELSE base \o "/" \o ToString(i + 1)

\* link of listing page i (0-based) under base
ListLink(base, i) == base \o (IF i > 0 THEN "/" \o ToString(i + 1) ELSE "")

MediaListRoute(mediaType, title, numPages, i) ==
    [path |-> ListPath("/media/" \o mediaType, i),
     component |-> "media-list",
     context |-> [limit |-> pageSize,
                  skip |-> i * pageSize,
                  mediaType |-> mediaType,
                  title |-> title,
                  numPages |-> numPages,
                  currentPage |-> i + 1,
                  basePage |-> "/media/" \o mediaType,
                  link |-> ListLink("/media/" \o mediaType, i)]]

MediaListRoutes(mediaType, title, results) ==
    LET numPages == MathCeilDiv(Len(results), pageSize)
    IN  [k \in 1..numPages |-> MediaListRoute(mediaType, title, numPages, k - 1)]

\* the test guarding the item-page createPage call
WantsItemPage(result) == ~Truthy(Field(result.fields, "externalLink"))

\* mutant: the detail path leaves the category out
MediaItemRouteNoCategory(mediaType, result) ==
    [path |-> "/media/" \o result.fields.slug,
     component |-> "media-page",
     context |-> [slug |-> result.fields.slug,
                  link |-> "/media/" \o result.fields.slug,
                  mediaType |-> mediaType]]

MediaItemRoute(mediaType, result) ==
    [path |-> "/media/" \o mediaType \o "/" \o result.fields.slug,
     component |-> "media-page",
     context |-> [slug |-> result.fields.slug,
                  link |-> "/media/" \o mediaType \o "/" \o result.fields.slug,
                  mediaType |-> mediaType]]

RECURSIVE MediaItemRoutes(_, _, _)
MediaItemRoutes(mediaType, results, i) ==
    IF i > Len(results) THEN <<>>
    ELSE (IF WantsItemPage(results[i])
          THEN <<MediaItemRoute(mediaType, results[i])>>
          ELSE <<>>)
         \o MediaItemRoutes(mediaType, results, i + 1)

NewsListRoute(numPages, i) ==
    [path |-> ListPath("/media/news", i),
     component |-> "news-list",
     context |-> [limit |-> newsPageSize,
                  skip |-> i * newsPageSize,
                  numPages |-> numPages,
                  currentPage |-> i + 1,
                  basePage |-> "/media/news",
                  link |-> ListLink("/media/news", i)]]

NewsListRoutes(results) ==
    LET numPages == MathCeilDiv(Len(results), newsPageSize)
    IN  [k \in 1..numPages |-> NewsListRoute(numPages, k - 1)]

\* content with the store a query was answered from recorded under its name
Answered(q, store) == [x \in DOMAIN content \cup {q} |-> IF x = q THEN store ELSE content[x]]

\* static pages: the query, the error check and the loop
StaticPhase ==
    /\ pc = "static"
    /\ \/ /\ failed' = failed \cup {"pages"}
          /\ raised' = TRUE
          /\ pc' = "raised"
          /\ UNCHANGED <<routes, content>>
       \/ \E store \in PagesContents :
          /\ content' = Answered("pages", store)
          /\ routes' = routes \o StaticRoutes(PagesQuery(store), 1)
          /\ pc' = "media"
          /\ UNCHANGED <<failed, raised>>
    /\ UNCHANGED <<mi, nodeVars, imgVars>>

\* mutant: a failed category query throws like the other two queries
MediaPhaseThrows ==
    /\ pc = "media"
    /\ LET mediaType == mediaTypes[mi][1]
           title == mediaTypes[mi][2]
       IN  \/ /\ failed' = failed \cup {mediaType}
               /\ raised' = TRUE
               /\ pc' = "raised"
               /\ UNCHANGED <<routes, content, mi>>
            \/ \E store \in MediaContents :
               /\ content' = Answered(mediaType, store)
               /\ routes' = routes
                     \o MediaListRoutes(mediaType, title, MarkdownQuery(store))
                     \o MediaItemRoutes(mediaType, MarkdownQuery(store), 1)
               /\ IF mi = Len(mediaTypes)
                  THEN pc' = "news" /\ UNCHANGED mi
                  ELSE mi' = mi + 1 /\ UNCHANGED pc
               /\ UNCHANGED <<failed, raised>>
    /\ UNCHANGED <<nodeVars, imgVars>>

\* one iteration of the media category loop
MediaPhase ==
    /\ pc = "media"
    /\ LET mediaType == mediaTypes[mi][1]
           title == mediaTypes[mi][2]
       IN  \/ /\ failed' = failed \cup {mediaType}
               /\ UNCHANGED <<routes, content>>
            \/ \E store \in MediaContents :
               /\ content' = Answered(mediaType, store)
               /\ routes' = routes
                     \o MediaListRoutes(mediaType, title, MarkdownQuery(store))
                     \o MediaItemRoutes(mediaType, MarkdownQuery(store), 1)
               /\ UNCHANGED failed
    /\ IF mi = Len(mediaTypes)
       THEN pc' = "news" /\ UNCHANGED mi
       ELSE mi' = mi + 1 /\ UNCHANGED pc
    /\ UNCHANGED <<raised, nodeVars, imgVars>>

\* news listings: the query, the error check and the loop
NewsPhase ==
    /\ pc = "news"
    /\ \/ /\ failed' = failed \cup {"news"}
          /\ raised' = TRUE
          /\ pc' = "raised"
          /\ UNCHANGED <<routes, content>>
       \/ \E store \in NewsContents :
          /\ content' = Answered("news", store)
          /\ routes' = routes \o NewsListRoutes(MarkdownQuery(store))
          /\ pc' = "done"
          /\ UNCHANGED <<failed, raised>>
    /\ UNCHANGED <<mi, nodeVars, imgVars>>

IdleNode ==
    /\ graphPage = Undefined
    /\ nodes = <<>>
    /\ links = <<>>
    /\ slugs = <<>>
    /\ call = Undefined

IdleImg ==
    /\ ast = Undefined
    /\ opts = Undefined
    /\ applied = 0
    /\ once = Undefined
    /\ given = Undefined

IdlePages ==
    /\ pc = "idle"
    /\ mi = 1
    /\ routes = <<>>
    /\ content = <<>>
    /\ failed = {}
    /\ raised = FALSE

InitPages ==
    /\ pc = "static"
    /\ mi = 1
    /\ routes = <<>>
    /\ content = <<>>
    /\ failed = {}
    /\ raised = FALSE
    /\ IdleNode
    /\ IdleImg

NextPages == StaticPhase \/ MediaPhase \/ NewsPhase

SpecPages == InitPages /\ [][NextPages]_vars

(***************************************************************************)
(* onCreateNode                                                            *)
(***************************************************************************)
Obj(entries) == [t |-> "object", o |-> entries]

\* a number, a boolean or null
Other == [t |-> "other"]

\* f with key k set to v
Put(f, k, v) == [x \in DOMAIN f \cup {k} |-> IF x = k THEN v ELSE f[x]]

typesToSlug == {"MarkdownRemark", "PagesJson", "ContentJson"}

\* the File nodes getNode can resolve
FileNodes ==
    [id \in {"file-about", "file-post"} |->
        IF id = "file-about"
        THEN [t |-> "object", name |-> "about", base |-> "about.json"]
        ELSE [t |-> "object", name |-> "post-1", base |-> "post-1.md"]]

getNode(id) == IF id \in DOMAIN FileNodes THEN FileNodes[id] ELSE Undefined

\* createNodeId and createContentDigest: deterministic, collision-free hashes
createNodeId(input) == "id(" \o input \o ")"

createContentDigest(input) == "digest(" \o input \o ")"

\* svgo.optimize on content it accepts
Optimize(fileContent) == "svgo(" \o fileContent \o ")"

\* zero or one entry with the given key
OptEntry(key, values) == {<<>>} \cup {<< <<key, v>> >> : v \in values}

\* objects nested inside a page payload
InnerObjects ==
    {a \o b : a \in OptEntry("mdMain", {Str("# A"), Str(""), Other}),
              b \in OptEntry("title", {Str("T")})}

\* payloads of a PagesJson node, as ordered key/value entries
PagePayloads ==
    {a \o b \o c :
        a \in OptEntry("a", {Other, Str("x")} \cup {Obj(o) : o \in InnerObjects}),
        b \in OptEntry("mdIntro_mdMain", {Str("# A"), Str("# B")}),
        c \in OptEntry("mdIntro", {Str("# A"), Obj(<< <<"mdMain", Str("# C")>> >>)})}

PagesJsonNodes ==
    {[id |-> "page1", parent |-> par, internal |-> [type |-> "PagesJson"],
      payload |-> pl] : par \in {"file-about", "gone"}, pl \in PagePayloads}

\* the other source nodes of the build
FixedNodes ==
    {[id |-> "post1", parent |-> "file-post", internal |-> [type |-> "MarkdownRemark"]],
     [id |-> "settings", parent |-> "gone", internal |-> [type |-> "ContentJson"]],
     [id |-> "logo", parent |-> "", internal |-> [type |-> "File", mediaType |-> "image/svg+xml"]],
     [id |-> "file-about", parent |-> "", internal |-> [type |-> "File", mediaType |-> "application/json"]]}

\* what loadNodeContent and svgo.optimize may do
LoadOutcomes ==
    {[ok |-> FALSE, content |-> ""], [ok |-> TRUE, content |-> ""],
     [ok |-> TRUE, content |-> "<svg id='a'/>"]}

\* node.children as createParentChildLink has left it
ChildrenOf(id) == IF id \in DOMAIN links THEN links[id] ELSE <<>>

RECURSIVE ArrayEntries(_, _)
ArrayEntries(arr, k) ==
    IF k > Len(arr) THEN <<>>
    ELSE << <<ToString(k - 1), Str(arr[k])>> >> \o ArrayEntries(arr, k + 1)

\* Object.entries(node) for a PagesJson node once the slug step has run
NodeEntries(node) ==
    node.payload
    \o << <<"id", Str(node.id)>>,
          <<"children", Obj(ArrayEntries(ChildrenOf(node.id), 1))>>,
          <<"parent", Str(node.parent)>>,
          <<"internal", Obj(<< <<"type", Str(node.internal.type)>> >>)>>,
          <<"fields", Obj(<< <<"slug", Str(getNode(node.parent).name)>> >>)>> >>

\* mutant: the slug keeps the file extension (fileNode.base)
SlugStepWithExtension(node) ==
    IF node.internal.type \in typesToSlug
    THEN LET fileNode == getNode(node.parent)
         IN  IF ~Truthy(fileNode)
             THEN [set |-> FALSE, value |-> "", return |-> TRUE]
             ELSE [set |-> TRUE, value |-> fileNode.base, return |-> FALSE]
    ELSE [set |-> FALSE, value |-> "", return |-> FALSE]

\* the slug branch: the field to attach, and whether the callback returns there
SlugStep(node) ==
    IF node.internal.type \in typesToSlug
    THEN LET fileNode == getNode(node.parent)
         IN  IF ~Truthy(fileNode)
             THEN [set |-> FALSE, value |-> "", return |-> TRUE]
             ELSE [set |-> TRUE, value |-> fileNode.name, return |-> FALSE]
    ELSE [set |-> FALSE, value |-> "", return |-> FALSE]

\* the node built for a markdown field
MdNode(newPath, key, value, node) ==
    [id |-> createNodeId(newPath),
     key |-> key,
     children |-> <<>>,
     parent |-> node.id,
     internal |-> [type |-> "JsonMarkdownField",
                   mediaType |-> "text/markdown",
                   content |-> value,
                   contentDigest |-> createContentDigest(value)]]

\* createFieldsForObject: the createNode calls it makes, in order; keys is the
\* key path walked so far, kept beside each call for stating properties
RECURSIVE createFieldsForObject(_, _, _, _)
createFieldsForObject(obj, path, keys, node) ==
    IF obj = <<>> THEN <<>>
    ELSE LET key == obj[1][1]
             value == obj[1][2]
             newPath == path \o key
         IN  (IF value.t = "string" /\ StartsWith(key, "md")
              THEN <<[keys |-> Append(keys, key),
                      path |-> newPath,
                      node |-> MdNode(newPath, key, value.s, node)]>>
              ELSE IF value.t = "object"
                   THEN createFieldsForObject(value.o, newPath \o "_",
                                              Append(keys, key), node)
                   ELSE <<>>)
             \o createFieldsForObject(Tail(obj), path, keys, node)

\* the PagesJson branch
MarkdownStep(node) ==
    IF node.internal.type = "PagesJson"
    THEN createFieldsForObject(NodeEntries(node), node.id \o "_", <<>>, node)
    ELSE <<>>

\* node.internal.mediaType === "image/svg+xml"
IsSvg(node) ==
    "mediaType" \in DOMAIN node.internal /\ node.internal.mediaType = "image/svg+xml"

\* mutant: the empty-content check is missing
SvgStepNoEmptyCheck(node, load, optOk) ==
    IF IsSvg(node)
    THEN IF ~load.ok \/ ~optOk
         THEN [created |-> <<>>, raised |-> FALSE]
         ELSE [created |-> <<[id |-> createNodeId(node.id),
                               children |-> <<>>,
                               rawSvg |-> Optimize(load.content),
                               parent |-> node.id,
                               internal |-> [type |-> "InlineSvg",
                                             contentDigest |->
                                                 createContentDigest(Optimize(load.content))]]>>,
               raised |-> FALSE]
    ELSE [created |-> <<>>, raised |-> FALSE]

\* the SVG branch: the nodes it creates and whether an exception leaves it
SvgStep(node, load, optOk) ==
    IF IsSvg(node)
    THEN IF ~load.ok
         THEN [created |-> <<>>, raised |-> FALSE]       \* rejected load, caught
         ELSE IF load.content = ""
         THEN [created |-> <<>>, raised |-> FALSE]       \* empty content, returns
         ELSE IF ~optOk
         THEN [created |-> <<>>, raised |-> FALSE]       \* rejected optimize, caught
         ELSE [created |-> <<[id |-> createNodeId(node.id),
                               children |-> <<>>,
                               rawSvg |-> Optimize(load.content),
                               parent |-> node.id,
                               internal |-> [type |-> "InlineSvg",
                                             contentDigest |->
                                                 createContentDigest(Optimize(load.content))]]>>,
               raised |-> FALSE]
    ELSE [created |-> <<>>, raised |-> FALSE]

\* createNode for each node of a sequence, in order: a node with an id the
\* store already holds replaces the one held
RECURSIVE CreateAll(_, _)
CreateAll(store, created) ==
    IF created = <<>> THEN store
    ELSE CreateAll(Put(store, created[1].id, created[1]), Tail(created))

\* createParentChildLink for each node of a sequence: the child id is added to
\* the parent's children unless it is there already
RECURSIVE LinkAll(_, _, _)
LinkAll(ls, parentId, created) ==
    IF created = <<>> THEN ls
    ELSE LET have == IF parentId \in DOMAIN ls THEN ls[parentId] ELSE <<>>
             next == IF \E k \in 1..Len(have) : have[k] = created[1].id
                     THEN have ELSE Append(have, created[1].id)
         IN  LinkAll(Put(ls, parentId, next), parentId, Tail(created))

\* the nodes onCreateNode is invoked for: source nodes and the nodes it created
KnownNodes == FixedNodes \cup {graphPage} \cup {nodes[id] : id \in DOMAIN nodes}

OnCreateNode ==
    \E node \in KnownNodes, load \in LoadOutcomes, optOk \in BOOLEAN :
        LET isSvg == IsSvg(node)
            slug == SlugStep(node)
            md == IF slug.return THEN <<>> ELSE MarkdownStep(node)
            svg == IF slug.return THEN [created |-> <<>>, raised |-> FALSE]
                   ELSE SvgStep(node, load, optOk)
            created == [k \in 1..Len(md) |-> md[k].node] \o svg.created
        IN  /\ isSvg \/ (load = [ok |-> FALSE, content |-> ""] /\ ~optOk)
            /\ slugs' = IF slug.set THEN Put(slugs, node.id, Str(slug.value)) ELSE slugs
            /\ nodes' = CreateAll(nodes, created)
            /\ links' = LinkAll(links, node.id, created)
            /\ call' = [t |-> "object",
                        node |-> node,
                        load |-> load,
                        optOk |-> optOk,
                        md |-> [k \in 1..Len(md) |-> [keys |-> md[k].keys, path |-> md[k].path]],
                        created |-> created,
                        raised |-> svg.raised]
            /\ UNCHANGED <<graphPage, pagesVars, imgVars>>

InitNode ==
    /\ graphPage \in PagesJsonNodes
    /\ nodes = <<>>
    /\ links = <<>>
    /\ slugs = <<>>
    /\ call = Undefined
    /\ IdlePages
    /\ IdleImg

NextNode == OnCreateNode

SpecNode == InitNode /\ [][NextNode]_vars

(***************************************************************************)
(* The relative-pathify image transform                                    *)
(***************************************************************************)
MaxChildren == 2
MaxApply == 3

ImageUrls == {Undefined, Str(""), Str("img.png"), Str("./img.png"), Str("/img.png")}

ImageNodes == {[type |-> "image", url |-> u] : u \in ImageUrls}

BlockNodes ==
    ImageNodes
    \cup {[type |-> "paragraph", children |-> <<i>>] : i \in ImageNodes}
    \cup {[type |-> "text", value |-> "hi"]}

MarkdownAsts ==
    {Undefined} \cup
    {[t |-> "object", type |-> "root", children |-> c] : c \in SeqUpTo(BlockNodes, MaxChildren)}

PluginOptions ==
    {Undefined} \cup
    {[t |-> "object", relativePathPrefix |-> x] :
        x \in {Undefined, Str(""), Str("./"), Str("../images/"), Str("/static/")}}

\* mutant: the prefix is added whatever the URL starts with
VisitorAlways(node, relativePathPrefix) ==
    IF ~Truthy(Field(node, "url")) THEN node
    ELSE [node EXCEPT !.url = Str(relativePathPrefix \o node.url.s)]

\* the visitor called on each image node
Visitor(node, relativePathPrefix) ==
    IF ~Truthy(Field(node, "url")) THEN node
    ELSE IF ~StartsWith(node.url.s, ".")
         THEN [node EXCEPT !.url = Str(relativePathPrefix \o node.url.s)]
         ELSE node

\* visit(tree, "image", visitor): every node of type image, in preorder
RECURSIVE Visit(_, _)
Visit(node, relativePathPrefix) ==
    IF node.type = "image" THEN Visitor(node, relativePathPrefix)
    ELSE IF "children" \in DOMAIN node
         THEN [node EXCEPT !.children =
                  [k \in 1..Len(node.children) |->
                      Visit(node.children[k], relativePathPrefix)]]
         ELSE node

\* module.exports of the plugin
Plugin(markdownAST, pluginOptions) ==
    IF ~Truthy(markdownAST) THEN markdownAST
    ELSE IF ~Truthy(pluginOptions) \/ ~Truthy(Field(pluginOptions, "relativePathPrefix"))
         THEN markdownAST
         ELSE Visit(markdownAST, pluginOptions.relativePathPrefix.s)

Transform ==
    /\ applied < MaxApply
    /\ ast' = Plugin(ast, opts)
    /\ applied' = applied + 1
    /\ once' = IF applied = 0 THEN ast' ELSE once
    /\ UNCHANGED <<opts, given, pagesVars, nodeVars>>

InitImg ==
    /\ ast \in MarkdownAsts
    /\ opts \in PluginOptions
    /\ applied = 0
    /\ once = Undefined
    /\ given = ast
    /\ IdlePages
    /\ IdleNode

NextImg == Transform

SpecImg == InitImg /\ [][NextImg]_vars

(***************************************************************************)
(* Properties of createPages                                               *)
(***************************************************************************)
RoutesOf(component) == SelectSeq(routes, LAMBDA r : r.component = component)

\* the listing routes registered under a base path, in order
ListingsOf(base) ==
    SelectSeq(routes, LAMBDA r : /\ r.component \in {"media-list", "news-list"}
                                 /\ r.context.basePage = base)

\* the item-detail routes registered for a category, in order
DetailsOf(category) ==
    SelectSeq(routes, LAMBDA r : /\ r.component = "media-page"
                                 /\ r.context.mediaType = category)

CategoryPageSize(category) == IF category = "news" THEN 15 ELSE 10

\* the least k with k * p >= n
LeastCover(n, p) == CHOOSE k \in 0..n : k * p >= n /\ \A j \in 0..n : j * p >= n => k <= j

Categories == {"announcements", "blog", "news"}

\* C1: for every item returned by a category query, a detail route
\* /media/{category}/{slug} is registered iff the item carries no external link
C1_DetailIffNoExternalLink ==
    \A c \in {"announcements", "blog"} \cap DOMAIN content :
        \A i \in 1..Len(content[c]) :
            (\E k \in 1..Len(DetailsOf(c)) :
                DetailsOf(c)[k].path = "/media/" \o c \o "/" \o content[c][i].fields.slug)
            <=> ~Truthy(content[c][i].fields.externalLink)

\* C5: N items and page size P (10 per media category, 15 for news) give
\* exactly ceil(N/P) listing routes; page 0 has path /media/{category}, page k > 0
\* has path /media/{category}/{k+1}; the context of page k carries skip = k*P,
\* limit = P, currentPage = k+1 and numPages = ceil(N/P)
C5_Pagination ==
    \A c \in Categories \cap DOMAIN content :
        LET N == Len(content[c])
            P == CategoryPageSize(c)
            L == ListingsOf("/media/" \o c)
        IN  /\ Len(L) = LeastCover(N, P)
            /\ \A k \in 0..(Len(L) - 1) :
                /\ L[k + 1].path = (IF k = 0 THEN "/media/" \o c
                                    ELSE "/media/" \o c \o "/" \o ToString(k + 1))
                /\ L[k + 1].context.skip = k * P
                /\ L[k + 1].context.limit = P
                /\ L[k + 1].context.currentPage = k + 1
                /\ L[k + 1].context.numPages = LeastCover(N, P)

\* a state where pagination produced a second page for a media category and for news
C5_Witness ==
    /\ pc = "done"
    /\ "blog" \in DOMAIN content /\ Len(content["blog"]) = 11
    /\ Len(ListingsOf("/media/blog")) = 2
    /\ Len(content["news"]) = 16
    /\ Len(ListingsOf("/media/news")) = 2

\* C4: a failed media query emits no routes for that category and stops neither
\* the other category nor the news phase; a failed static-pages or news query
\* makes createPages raise with no route of that phase registered
C4_QueryFailurePolicy ==
    /\ \A c \in {"announcements", "blog"} \cap failed :
        /\ Len(DetailsOf(c)) = 0
        /\ Len(ListingsOf("/media/" \o c)) = 0
    /\ ("announcements" \in failed /\ "blog" \in DOMAIN content /\ Len(content["blog"]) > 0)
        => Len(ListingsOf("/media/blog")) > 0
    /\ (failed \subseteq {"announcements", "blog"}) => ~raised /\ pc # "raised"
    /\ (failed \subseteq {"announcements", "blog"} /\ "news" \in DOMAIN content
            /\ Len(content["news"]) > 0)
        => Len(ListingsOf("/media/news")) > 0
    /\ "pages" \in failed => raised /\ pc = "raised" /\ routes = <<>>
    /\ "news" \in failed => raised /\ pc = "raised" /\ Len(RoutesOf("news-list")) = 0
    /\ raised => ("pages" \in failed \/ "news" \in failed)

\* the announcements query failed, and blog and news routes were still registered
C4_Witness ==
    /\ pc = "done"
    /\ failed = {"announcements"}
    /\ Len(ListingsOf("/media/blog")) > 0
    /\ Len(DetailsOf("blog")) > 0
    /\ Len(ListingsOf("/media/news")) > 0

\* a PagesJson node carries a navigation link
CarriesLink(page) ==
    /\ page.navigation.t = "object"
    /\ page.navigation.link.t = "string"
    /\ page.navigation.link.s # ""

\* C8: exactly one route per PagesJson node that carries a navigation link, in
\* order, with path and context.link equal to the link; a node without
\* navigation or without link registers nothing and stops nothing after it
C8_StaticPages ==
    "pages" \in DOMAIN content =>
        LET S == content["pages"]
            idx == SelectSeq([i \in 1..Len(S) |-> i], LAMBDA i : CarriesLink(S[i]))
            R == RoutesOf("static-page")
        IN  /\ Len(R) = Len(idx)
            /\ \A k \in 1..Len(idx) :
                /\ R[k].path = S[idx[k]].navigation.link.s
                /\ R[k].context.link = S[idx[k]].navigation.link.s

\* a node without a link comes first and the node after it got its route
C8_Witness ==
    /\ "pages" \in DOMAIN content
    /\ Len(content["pages"]) = 2
    /\ ~CarriesLink(content["pages"][1])
    /\ CarriesLink(content["pages"][2])
    /\ Len(RoutesOf("static-page")) = 1

\* slugs are unique within each category
UniqueSlugs ==
    \A c \in DOMAIN content \ {"pages"} :
        \A i, j \in 1..Len(content[c]) :
            i # j => content[c][i].fields.slug # content[c][j].fields.slug

\* static-page links that are pairwise distinct and outside /media/
TidyStaticLinks ==
    LET R == RoutesOf("static-page")
    IN  /\ \A i, j \in 1..Len(R) : i # j => R[i].path # R[j].path
        /\ \A i \in 1..Len(R) : ~StartsWith(R[i].path, "/media/")

\* C9 (as claimed): with unique slugs per category no two registered routes
\* share a path, in particular a listing route /media/{category}/{k+1} never
\* coincides with a detail route /media/{category}/{slug}; read in the
\* claim's favour, for content whose static-page links are distinct and
\* outside /media/
C9_NoSharedPath ==
    (UniqueSlugs /\ TidyStaticLinks) =>
        \A i, j \in 1..Len(routes) : i # j => routes[i].path # routes[j].path

\* C9 (amended): two registered routes share a path only when one of them is a
\* static page (its link is registered verbatim), or one is listing page k >= 2
\* of a category and the other the detail page of an item of that category
\* whose slug is the decimal numeral k
C9_SharedPathOnlyStaticOrNumericSlug ==
    \A i, j \in 1..Len(routes) :
        (i # j /\ routes[i].path = routes[j].path) =>
            \/ routes[i].component = "static-page"
            \/ routes[j].component = "static-page"
            \/ \E a, b \in {i, j} :
                /\ routes[a].component = "media-list"
                /\ routes[b].component = "media-page"
                /\ routes[a].context.mediaType = routes[b].context.mediaType
                /\ routes[a].context.currentPage >= 2
                /\ routes[b].context.slug = ToString(routes[a].context.currentPage)

\* both categories and news were paginated over two pages, and a detail page
\* with slug "2" met listing page 2
C9_Witness ==
    /\ pc = "done"
    /\ UniqueSlugs
    /\ failed = {}
    /\ Len(ListingsOf("/media/announcements")) = 2
    /\ Len(ListingsOf("/media/blog")) = 2
    /\ \E i, j \in 1..Len(routes) :
        /\ routes[i].component = "media-list"
        /\ routes[j].component = "media-page"
        /\ routes[i].path = routes[j].path

(***************************************************************************)
(* Properties of onCreateNode                                              *)
(***************************************************************************)
Called == call # Undefined

\* the key paths of the string-valued fields whose key starts with "md"
RECURSIVE MdFieldPaths(_, _)
MdFieldPaths(obj, keys) ==
    UNION {LET key == obj[k][1]
               value == obj[k][2]
           IN  IF value.t = "string" /\ StartsWith(key, "md")
               THEN {Append(keys, key)}
               ELSE IF value.t = "object"
                    THEN MdFieldPaths(value.o, Append(keys, key))
                    ELSE {}
           : k \in 1..Len(obj)}

\* the JsonMarkdownField nodes the store holds for a parent
MarkdownNodesOf(parentId) ==
    {id \in DOMAIN nodes : /\ nodes[id].internal.type = "JsonMarkdownField"
                           /\ nodes[id].parent = parentId}

\* C2: after onCreateNode on a PagesJson node (whose parent file resolves),
\* every string-valued field at any depth whose key starts with "md" has
\* exactly one JsonMarkdownField node of its own, a child of that node, with
\* the digest of its content
C2_OneNodePerMarkdownField ==
    (Called /\ call.node.internal.type = "PagesJson" /\ Truthy(getNode(call.node.parent)))
    => /\ Cardinality(MarkdownNodesOf(call.node.id))
            = Cardinality(MdFieldPaths(call.node.payload, <<>>))
       /\ \A id \in MarkdownNodesOf(call.node.id) :
            /\ \E k \in 1..Len(ChildrenOf(call.node.id)) : ChildrenOf(call.node.id)[k] = id
            /\ nodes[id].internal.contentDigest = createContentDigest(nodes[id].internal.content)

\* C3: within one PagesJson node, markdown fields with distinct key paths are
\* handed distinct path strings for createNodeId
C3_DistinctPathsDistinctIds ==
    Called =>
        \A a, b \in 1..Len(call.md) :
            call.md[a].keys # call.md[b].keys => call.md[a].path # call.md[b].path

\* loading and optimizing both succeeded in the latest invocation
SvgSucceeded == call.load.ok /\ call.load.content # "" /\ call.optOk

\* C6: for an image/svg+xml node, an empty or failed load or a failed
\* optimization creates no InlineSvg node and no link, and no exception
\* escapes; an InlineSvg child is created only when both succeed
C6_SvgFailuresCreateNothing ==
    (Called /\ IsSvg(call.node)) =>
        /\ ~call.raised
        /\ ~SvgSucceeded => call.created = <<>>
        /\ \A k \in 1..Len(call.created) :
            call.created[k].internal.type = "InlineSvg" =>
                /\ SvgSucceeded
                /\ call.created[k].parent = call.node.id
                /\ \E j \in 1..Len(ChildrenOf(call.node.id)) :
                    ChildrenOf(call.node.id)[j] = call.created[k].id

\* the optimization failed on loaded content, after an earlier run had inlined the file
C6_Witness ==
    /\ Called
    /\ IsSvg(call.node)
    /\ call.load.ok /\ call.load.content # "" /\ ~call.optOk
    /\ call.created = <<>>
    /\ \E id \in DOMAIN nodes : nodes[id].internal.type = "InlineSvg"

\* C7: for a node of a recognized type, a resolvable parent file gives a slug
\* equal to the file's base name (the File node's name: the file name without
\* directory and extension); an unresolvable one leaves the node without slug,
\* creates no node, and the callback returns without raising
C7_SlugFromParentFile ==
    (Called /\ call.node.internal.type \in {"MarkdownRemark", "PagesJson", "ContentJson"}) =>
        IF call.node.parent \in DOMAIN FileNodes
        THEN /\ call.node.id \in DOMAIN slugs
             /\ slugs[call.node.id] = Str(FileNodes[call.node.parent].name)
        ELSE /\ call.node.id \notin DOMAIN slugs
             /\ call.created = <<>>
             /\ ~call.raised

\* a PagesJson node with markdown fields whose parent file is missing was
\* processed, after a node with a resolvable parent got its slug
C7_Witness ==
    /\ Called
    /\ call.node.internal.type = "PagesJson"
    /\ call.node.parent \notin DOMAIN FileNodes
    /\ MdFieldPaths(call.node.payload, <<>>) # {}
    /\ call.created = <<>>
    /\ "post1" \in DOMAIN slugs /\ slugs["post1"] = Str("post-1")

(***************************************************************************)
(* Properties of the image transform                                       *)
(***************************************************************************)
\* the url of every image node of a tree, in preorder
RECURSIVE UrlsOf(_)
UrlsOf(node) ==
    IF node.type = "image" THEN <<node.url>>
    ELSE IF "children" \in DOMAIN node
         THEN LET F[k \in 0..Len(node.children)] ==
                      IF k = 0 THEN <<>> ELSE F[k - 1] \o UrlsOf(node.children[k])
              IN  F[Len(node.children)]
         ELSE <<>>

\* the transform runs: there is a tree and a non-empty prefix
HasPrefix ==
    /\ Truthy(ast)
    /\ Truthy(opts)
    /\ opts.relativePathPrefix.t = "string"
    /\ opts.relativePathPrefix.s # ""

\* C10 (as claimed): for every AST and every non-empty relativePathPrefix,
\* applying the transform twice gives the image URLs of applying it once
C10_IdempotentAnyPrefix ==
    (HasPrefix /\ applied >= 2) => UrlsOf(ast) = UrlsOf(once)

\* C10 (amended): for a relativePathPrefix starting with ".", applying the
\* transform again changes nothing, and after any number of applications an
\* image URL that was missing, empty or starting with "." is as given and
\* any other URL carries the prefix exactly once
C10_IdempotentDotPrefix ==
    (HasPrefix /\ StartsWith(opts.relativePathPrefix.s, ".") /\ applied >= 1) =>
        /\ ast = once
        /\ Len(UrlsOf(ast)) = Len(UrlsOf(given))
        /\ \A k \in 1..Len(UrlsOf(given)) :
            LET before == UrlsOf(given)[k]
                after == UrlsOf(ast)[k]
            IN  IF before.t = "string" /\ before.s # "" /\ SubSeq(before.s, 1, 1) # "."
                THEN after = Str(opts.relativePathPrefix.s \o before.s)
                ELSE after = before

\* the transform was applied twice with prefix "./" to a tree holding an
\* image it rewrites and an image it leaves alone
C10_Witness ==
    /\ HasPrefix
    /\ opts.relativePathPrefix.s = "./"
    /\ applied >= 2
    /\ \E k \in 1..Len(UrlsOf(given)) : UrlsOf(given)[k] = Str("img.png")
    /\ \E k \in 1..Len(UrlsOf(given)) : UrlsOf(given)[k] = Str("./img.png")
    /\ ast # given

====
